---- MODULE Spec2Model ----
(***************************************************************************)
(* Model of the dsh shell of src/main.cpp: the dispatcher loop of main(),  *)
(* the history array with its counter, the recall syntax (!!, !n), the     *)
(* tokenizer parse_input(), the listing print_history() and the process    *)
(* executor execute() with the child processes it forks.                   *)
(*                                                                         *)
(* A C string is a sequence of one-character strings: "ls &" is            *)
(* <<"l","s"," ","&">>.                                                    *)
(***************************************************************************)
EXTENDS Integers, Sequences, FiniteSets, TLC

\* ------------------------------------------------------------------ bounds

\* Slots of the history array. The program has 100 (#define MAX_HISTORY);
\* the model keeps the code's arithmetic and scales the number down.
MAX_HISTORY == 3

\* Entries print_history lists at most. The program has 10 (count = 10).
HISTORY_SHOWN == 2

\* Lines recorded in one run of the model (one more than fills the array and
\* wraps it, plus one to look at the result).
MaxLines == 5

\* Process table slots: fork() fails when none is free.
MaxProcs == 2

\* Longest line the tokenizer specification draws.
MaxLen == 5

\* ----------------------------------------------------------------- strings

s_exit == <<"e","x","i","t">>
s_history == <<"h","i","s","t","o","r","y">>
s_bangbang == <<"!","!">>
s_amp == <<"&">>
s_ls == <<"l","s">>
s_ls_bg == <<"l","s"," ","&">>
s_bang == <<"!">>
s_space == <<" ">>
s_empty == <<>>

\* What getline leaves as the line once standard input is at its end: it
\* extracts nothing and stores the null character, so input is "" (typed
\* holds this mark to tell the case from a blank line).
s_eof == <<"EOF">>

\* What an uninitialised or out-of-bounds char* may point at when it does
\* not fault: some string that is nothing the user typed.
s_junk == <<"?">>

\* A history slot that was never assigned: a pointer to anything.
ptr_garbage == <<"garbage">>

\* args[] before parse_input has ever filled it: pointers to anything.
args_uninit == <<ptr_garbage>>

Digits == <<"0","1","2","3","4","5","6","7","8","9">>

IsDigit(c) == \E d \in 1..10 : Digits[d] = c

DigitVal(c) == (CHOOSE d \in 1..10 : Digits[d] = c) - 1

\* The decimal text of a small natural number, as the user types it.
RECURSIVE Decimal(_)
Decimal(n) == IF n < 10 THEN <<Digits[n + 1]>>
              ELSE Decimal(n \div 10) \o <<Digits[(n % 10) + 1]>>

\* main.cpp string_compare: equal lengths, then equal character by character.
string_compare(s1, s2) ==
    LET a == Len(s1)
        b == Len(s2)
    IN  IF a # b THEN FALSE
        ELSE \A i \in 1..a : s1[i] = s2[i]

\* atoi as main uses it on &input[1]: leading blanks, an optional sign, then
\* the digits up to the first other character; 0 when there is no digit.
RECURSIVE atoi_digits(_, _)
atoi_digits(s, acc) ==
    IF s # <<>> /\ IsDigit(Head(s))
    THEN atoi_digits(Tail(s), acc * 10 + DigitVal(Head(s)))
    ELSE acc

RECURSIVE atoi(_)
atoi(s) ==
    IF s = <<>> THEN 0
    ELSE IF Head(s) = " " THEN atoi(Tail(s))
    ELSE IF Head(s) = "-" THEN 0 - atoi_digits(Tail(s), 0)
    ELSE IF Head(s) = "+" THEN atoi_digits(Tail(s), 0)
    ELSE atoi_digits(s, 0)

\* --------------------------------------------------------------- tokenizer

\* parse_input: const char delimiters[] = " \n"
delimiters == {" ", "\n"}

RECURSIVE SkipDelims(_)
SkipDelims(s) ==
    IF s # <<>> /\ Head(s) \in delimiters THEN SkipDelims(Tail(s)) ELSE s

RECURSIVE TokenLen(_)
TokenLen(s) ==
    IF s = <<>> \/ Head(s) \in delimiters THEN 0 ELSE 1 + TokenLen(Tail(s))

\* The successive results of strtok(copy, delimiters), strtok(NULL, ...)
\* up to the NULL that ends them.
RECURSIVE strtok(_)
strtok(s) ==
    LET t == SkipDelims(s)
    IN  IF t = <<>> THEN <<>>
        ELSE LET n == TokenLen(t)
             IN  <<SubSeq(t, 1, n)>> \o strtok(SubSeq(t, n + 1, Len(t)))

\* The while loop of parse_input over the tokens after the first: a token
\* equal to "&" clears shouldWait and its slot is reused by the next token
\* (k--, k++); any other token stays in args.
RECURSIVE parse_loop(_, _, _, _)
parse_loop(toks, i, acc, w) ==
    IF i > Len(toks) THEN [args |-> acc, shouldWait |-> w]
    ELSE IF string_compare(toks[i], s_amp)
         THEN parse_loop(toks, i + 1, acc, FALSE)
         ELSE parse_loop(toks, i + 1, Append(acc, toks[i]), w)

\* parse_input(input, args, shouldWait): args up to its NULL, and shouldWait.
\* The first token is stored without being compared with "&"; with no token
\* at all args[0] is NULL and shouldWait is left as it was.
parse_input(in, w) ==
    LET toks == strtok(in)
    IN  IF toks = <<>> THEN [args |-> <<>>, shouldWait |-> w]
        ELSE parse_loop(toks, 2, <<toks[1]>>, w)

\* ------------------------------------------------------------------- state

VARIABLES
    pc,             \* where the interpreter process is: "prompt" (top of the
                    \* while loop), "wait" (in execute's wait loop), "exited"
                    \* (return 0), "fatal" (exit(1)), "crashed" (a fault),
                    \* and "parse" / "parsed" in the tokenizer specification
    should_run,     \* main: int should_run
    input,          \* main: char input[MAX_LINE]
    history,        \* main: char* history[MAX_HISTORY]
    history_count,  \* main: int history_count
    args,           \* main: char* args[], read up to its NULL
    should_wait,    \* main: bool should_wait
    need_fork,      \* main: bool need_fork
    procs,          \* the children fork() made: "free" (no such child),
                    \* "running" (execvp replaced the image), "shell" (execvp
                    \* returned: the child is back in main's loop), "zombie"
                    \* (terminated, not yet waited for)
    child,          \* execute: pid_t child while the parent waits, else 0
    typed,          \* the line getline read in the last iteration
    log,            \* every string stored by line 135, oldest first
    printed,        \* what the interpreter printed in the last iteration
    executed,       \* whether the last iteration called execute()
    child_out       \* what each child that is still alive has printed since
                    \* fork() returned 0 in it

vars == <<pc, should_run, input, history, history_count, args, should_wait,
          need_fork, procs, child, typed, log, printed, executed, child_out>>

Pids == 1..MaxProcs

\* The lines of output, as records of one shape.
Out(kind, num, text) == [kind |-> kind, num |-> num, text |-> text]
Echo(s) == Out("echo", 0, s)
NoCommands == Out("No commands in history!", 0, <<>>)
NoNumbered(n) == Out("There is no command numbered", n, <<>>)
Header == Out("Command history:", 0, <<>>)
Entry(n, s) == Out("entry", n, s)
ForkFailed == Out("Fork failed!", 0, <<>>)

\* ------------------------------------------------------------ history reads

\* Reading the string history[i] points at (strcpy, printf %s). Inside the
\* array and assigned: that string. Outside the array, or never assigned, the
\* pointer is garbage: the read faults, or finds some string.
HistRead(h, i) ==
    IF i \in 0..(MAX_HISTORY - 1) /\ h[i] # ptr_garbage
    THEN {[fault |-> FALSE, s |-> h[i]]}
    ELSE {[fault |-> TRUE, s |-> <<>>], [fault |-> FALSE, s |-> s_junk]}

\* RecallLatest without "need_fork = false" on an empty history.
RecallLatest_noflag(h, hc) ==
    IF hc # -1
    THEN {[input |-> r.s, need_fork |-> TRUE, fault |-> r.fault,
           printed |-> IF r.fault THEN <<>> ELSE <<Echo(r.s)>>]
          : r \in HistRead(h, hc)}
    ELSE {[input |-> s_bangbang, need_fork |-> TRUE, fault |-> FALSE,
           printed |-> <<NoCommands>>]}

\* RecallLatest without the strcpy of line 82: the entry is echoed, input
\* stays "!!".
RecallLatest_nocopy(h, hc) ==
    IF hc # -1
    THEN {[input |-> IF r.fault THEN r.s ELSE s_bangbang, need_fork |-> TRUE,
           fault |-> r.fault,
           printed |-> IF r.fault THEN <<>> ELSE <<Echo(r.s)>>]
          : r \in HistRead(h, hc)}
    ELSE {[input |-> s_bangbang, need_fork |-> FALSE, fault |-> FALSE,
           printed |-> <<NoCommands>>]}

\* main, lines 77-90: the line is "!!".
RecallLatest(h, hc) ==
    IF hc # -1
    THEN {[input |-> r.s, need_fork |-> TRUE, fault |-> r.fault,
           printed |-> IF r.fault THEN <<>> ELSE <<Echo(r.s)>>]
          : r \in HistRead(h, hc)}
    ELSE {[input |-> s_bangbang, need_fork |-> FALSE, fault |-> FALSE,
           printed |-> <<NoCommands>>]}

\* main, line 109: "input = NULL;" assigns to an array, which no C++ compiler
\* accepts. What it leaves in input is not defined by the source: the line
\* as typed (the statement dropped) or the empty string (the buffer nulled).
InputNulled(in) == {in, <<>>}

\* RecallNumber without "num <= history_count" in the test of line 101.
RecallNumber_nobound(in, h, hc) ==
    LET num == IF Len(in) >= 2 THEN atoi(Tail(in)) - 1 ELSE 0
    IN  IF num > -1
        THEN {[input |-> r.s, need_fork |-> TRUE, fault |-> r.fault,
               printed |-> IF r.fault THEN <<>> ELSE <<Echo(r.s)>>]
              : r \in HistRead(h, num)}
        ELSE {[input |-> x, need_fork |-> TRUE, fault |-> FALSE,
               printed |-> <<NoNumbered(num + 1)>>]
              : x \in InputNulled(in)}

\* main, lines 91-111: the line starts with '!' and is not "!!".
RecallNumber(in, h, hc) ==
    LET num == IF Len(in) >= 2 THEN atoi(Tail(in)) - 1 ELSE 0
    IN  IF num <= hc /\ num > -1
        THEN {[input |-> r.s, need_fork |-> TRUE, fault |-> r.fault,
               printed |-> IF r.fault THEN <<>> ELSE <<Echo(r.s)>>]
              : r \in HistRead(h, num)}
        ELSE {[input |-> x, need_fork |-> TRUE, fault |-> FALSE,
               printed |-> <<NoNumbered(num + 1)>>]
              : x \in InputNulled(in)}

\* main, lines 73-111: need_fork = true, then the special commands.
Recall(in, h, hc) ==
    IF string_compare(in, s_bangbang) THEN RecallLatest(h, hc)
    ELSE IF in[1] = "!" THEN RecallNumber(in, h, hc)
    ELSE {[input |-> in, need_fork |-> TRUE, fault |-> FALSE, printed |-> <<>>]}

\* print_history's loop stopping one entry early ("hc > 0").
RECURSIVE print_history_loop_early(_, _)
print_history_loop_early(hc, count) ==
    IF hc > 0 /\ count > 0
    THEN <<hc>> \o print_history_loop_early(hc - 1, count - 1)
    ELSE <<>>

\* print_history's for loop: the indices it prints, hc downwards, at most
\* count of them.
RECURSIVE print_history_loop(_, _)
print_history_loop(hc, count) ==
    IF hc > -1 /\ count > 0
    THEN <<hc>> \o print_history_loop(hc - 1, count - 1)
    ELSE <<>>

\* print_history(history, hc): the header, then "hc+1 history[hc]" for each
\* index of the loop. An index outside the array is read all the same.
print_history(h, hc) ==
    LET idx == print_history_loop(hc, HISTORY_SHOWN)
        bad == \E k \in 1..Len(idx) : \E r \in HistRead(h, idx[k]) : r.fault
        txt(i) == IF i \in 0..(MAX_HISTORY - 1) /\ h[i] # ptr_garbage
                  THEN h[i] ELSE s_junk
        all == <<Header>> \o [k \in 1..Len(idx) |-> Entry(idx[k] + 1, txt(idx[k]))]
    IN  {[fault |-> FALSE, printed |-> all]}
        \cup (IF bad THEN {[fault |-> TRUE, printed |-> <<Header>>]} ELSE {})

\* main, lines 113-130: the history built-in, or else parse_input.
Dispatch(r, h, hc, a) ==
    IF r.fault
    THEN {[input |-> r.input, need_fork |-> r.need_fork, should_wait |-> TRUE,
           args |-> a, fault |-> TRUE, printed |-> r.printed]}
    ELSE IF string_compare(r.input, s_history)
    THEN IF hc = -1
         THEN {[input |-> r.input, need_fork |-> r.need_fork,
                should_wait |-> TRUE, args |-> a, fault |-> FALSE,
                printed |-> r.printed \o <<NoCommands>>]}
         ELSE {[input |-> r.input, need_fork |-> FALSE, should_wait |-> TRUE,
                args |-> a, fault |-> l.fault,
                printed |-> r.printed \o l.printed]
               : l \in print_history(h, hc)}
    ELSE LET p == parse_input(r.input, TRUE)
         IN  {[input |-> r.input, need_fork |-> r.need_fork,
               should_wait |-> p.shouldWait, args |-> p.args, fault |-> FALSE,
               printed |-> r.printed]}

\* main, lines 133-134: the counter before the increment of line 135.
history_reset(hc) == IF hc >= MAX_HISTORY THEN -1 ELSE hc

\* main, line 135: ++history_count, and the slot the string is stored in.
history_slot(hc) == (history_reset(hc) + 1) % MAX_HISTORY

\* ---------------------------------------------------------------- executor

\* What becomes of the forked child at "execvp(cmd[0], cmd)": the image is
\* replaced ("running"), or execvp returns -1 and, the test
\* "!execvp(...) < 0" being false for every return value, the child leaves
\* execute() and is back in main's loop ("shell"). With cmd[0] NULL or
\* garbage the call may as well fault ("zombie").
execvp(cmd) ==
    IF cmd = <<>> THEN {"shell", "zombie"}
    ELSE IF cmd = args_uninit THEN {"running", "shell", "zombie"}
    ELSE {"running", "shell"}

\* execute, line 164: the test "!execvp(cmd[0], cmd) < 0" on the value ret
\* execvp returned: "!" binds first and gives 0 or 1, which is never < 0.
exec_failed_test(ret) == (IF ret = 0 THEN 1 ELSE 0) < 0

\* execute, lines 161-168, in a child where execvp returned -1: what the
\* child prints before it leaves execute().
child_branch_output ==
    IF exec_failed_test(-1) THEN <<"Error executing command!">> ELSE <<>>

\* The wait loop ending on whichever child wait() returns.
wait_ends_any(pid, c) == TRUE

\* execute, line 174: the loop "while(wait(&status) != child)" ends when the
\* pid wait returned is child's.
wait_ends(pid, c) == pid = c

\* execute with a parent that waits for every child, "&" or not.
execute_always_waits(cmd, waiting, out) ==
    /\ executed' = TRUE
    /\ \/ /\ printed' = out \o <<ForkFailed>>
          /\ pc' = "fatal"
          /\ UNCHANGED <<procs, child, child_out>>
       \/ \E p \in Pids :
            /\ procs[p] = "free"
            /\ \A q \in Pids : q < p => procs[q] # "free"
            /\ \E st \in execvp(cmd) :
                 /\ procs' = [procs EXCEPT ![p] = st]
                 /\ child_out' = [child_out EXCEPT ![p] =
                        IF st = "shell" THEN child_branch_output ELSE <<>>]
            /\ printed' = out
            /\ pc' = "wait" /\ child' = p

\* execute(cmd, waiting), in the parent: fork fails and the interpreter
\* exits with status 1, or a child is made and the parent waits for it or
\* returns at once.
execute(cmd, waiting, out) ==
    /\ executed' = TRUE
    /\ \/ /\ printed' = out \o <<ForkFailed>>
          /\ pc' = "fatal"
          /\ UNCHANGED <<procs, child, child_out>>
       \/ \E p \in Pids :
            /\ procs[p] = "free"
            /\ \A q \in Pids : q < p => procs[q] # "free"
            /\ \E st \in execvp(cmd) :
                 /\ procs' = [procs EXCEPT ![p] = st]
                 /\ child_out' = [child_out EXCEPT ![p] =
                        IF st = "shell" THEN child_branch_output ELSE <<>>]
            /\ printed' = out
            /\ IF waiting
               THEN pc' = "wait" /\ child' = p
               ELSE pc' = "prompt" /\ child' = 0

\* ------------------------------------------------------------------ actions

Lines ==
    {s_empty, s_exit, s_ls, s_ls_bg, s_space, s_history, s_bangbang, s_bang,
     s_bang \o Decimal(1), s_bang \o Decimal(MAX_HISTORY)}

\* main, lines 132-141: store the line in the history, then execute.
Record(d) ==
    /\ input' = d.input
    /\ args' = d.args
    /\ should_wait' = d.should_wait
    /\ need_fork' = d.need_fork
    /\ UNCHANGED should_run
    /\ IF d.fault
       THEN /\ pc' = "crashed"
            /\ printed' = d.printed
            /\ executed' = FALSE
            /\ UNCHANGED <<history, history_count, log, procs, child, child_out>>
       ELSE /\ history' = [history EXCEPT ![history_slot(history_count)] = d.input]
            /\ history_count' = history_reset(history_count) + 1
            /\ log' = Append(log, d.input)
            /\ IF d.need_fork
               THEN execute(d.args, d.should_wait, d.printed)
               ELSE /\ pc' = "prompt"
                    /\ printed' = d.printed
                    /\ executed' = FALSE
                    /\ UNCHANGED <<procs, child, child_out>>

\* One iteration of main's while loop on the line getline read, up to the
\* point where the parent is back at the prompt or waits in execute.
Iteration(line) ==
    /\ pc = "prompt"
    /\ typed # s_eof
    /\ typed' = line
    /\ IF Len(line) = 0
       THEN /\ printed' = <<>>
            /\ executed' = FALSE
            /\ input' = line
            /\ UNCHANGED <<pc, should_run, history, history_count, args,
                           should_wait, need_fork, procs, child, log, child_out>>
       ELSE IF string_compare(line, s_exit)
       THEN /\ should_run' = 0
            /\ pc' = "exited"
            /\ printed' = <<>>
            /\ executed' = FALSE
            /\ input' = line
            /\ UNCHANGED <<history, history_count, args, should_wait,
                           need_fork, procs, child, log, child_out>>
       ELSE \E r \in Recall(line, history, history_count) :
              \E d \in Dispatch(r, history, history_count, args) :
                Record(d)

\* The iteration, for as long as the run has lines left.
ReadLine(line) ==
    /\ Len(log) < MaxLines
    /\ Iteration(line)

\* main, lines 62-66, with standard input at its end: getline sets input to
\* "" and the loop takes the blank-line branch; should_run stays 1, and every
\* later read finds the end again.
ReadEOF ==
    /\ pc = "prompt"
    /\ typed' = s_eof
    /\ input' = <<>>
    /\ printed' = <<>>
    /\ executed' = FALSE
    /\ UNCHANGED <<pc, should_run, history, history_count, args, should_wait,
                   need_fork, procs, child, log, child_out>>

\* A child terminates: the program execvp started in it ends.
ChildExit(p) ==
    /\ pc \in {"prompt", "wait"}
    /\ procs[p] = "running"
    /\ procs' = [procs EXCEPT ![p] = "zombie"]
    /\ UNCHANGED <<pc, should_run, input, history, history_count, args,
                   should_wait, need_fork, child, typed, log, printed, executed,
                   child_out>>

\* The child has printed its prompt and is reading standard input.
ChildAtPrompt(p) ==
    child_out[p] # <<>> /\ child_out[p][Len(child_out[p])] = "dsh>"

\* A child in which execvp returned leaves execute() and goes round main's
\* while loop (line 56) as the parent does: it prints the prompt "dsh>" and
\* reads standard input. Its own copies of the history and of the other
\* locals are not followed.
ChildLoop(p) ==
    /\ pc \in {"prompt", "wait"}
    /\ procs[p] = "shell"
    /\ ~ChildAtPrompt(p)
    /\ child_out' = [child_out EXCEPT ![p] = Append(@, "dsh>")]
    /\ UNCHANGED <<pc, should_run, input, history, history_count, args,
                   should_wait, need_fork, procs, child, typed, log, printed,
                   executed>>

\* Such a child ends when the line it reads at its prompt is "exit" (lines
\* 67-70 in the child): that takes a line from the user.
ChildShellExit(p) ==
    /\ pc \in {"prompt", "wait"}
    /\ procs[p] = "shell"
    /\ ChildAtPrompt(p)
    /\ procs' = [procs EXCEPT ![p] = "zombie"]
    /\ child_out' = [child_out EXCEPT ![p] = <<>>]
    /\ UNCHANGED <<pc, should_run, input, history, history_count, args,
                   should_wait, need_fork, child, typed, log, printed, executed>>

\* execute, lines 171-176: wait() returns the pid of some terminated child
\* and reaps it; the loop goes on until that pid is child's.
WaitReturn(q) ==
    /\ pc = "wait"
    /\ procs[q] = "zombie"
    /\ procs' = [procs EXCEPT ![q] = "free"]
    /\ IF wait_ends(q, child)
       THEN pc' = "prompt" /\ child' = 0
       ELSE UNCHANGED <<pc, child>>
    /\ UNCHANGED <<should_run, input, history, history_count, args,
                   should_wait, need_fork, typed, log, printed, executed,
                   child_out>>

Init ==
    /\ pc = "prompt"
    /\ should_run = 1
    /\ input = <<>>
    /\ history = [i \in 0..(MAX_HISTORY - 1) |-> ptr_garbage]
    /\ history_count = -1
    /\ args = args_uninit
    /\ should_wait = TRUE
    /\ need_fork = TRUE
    /\ procs = [p \in Pids |-> "free"]
    /\ child = 0
    /\ typed = <<>>
    /\ log = <<>>
    /\ printed = <<>>
    /\ executed = FALSE
    /\ child_out = [p \in Pids |-> <<>>]

Next ==
    \/ \E line \in Lines : ReadLine(line)
    \/ \E p \in Pids : ChildExit(p)
    \/ \E p \in Pids : ChildLoop(p)
    \/ \E p \in Pids : ChildShellExit(p)
    \/ \E q \in Pids : WaitReturn(q)

Spec == Init /\ [][Next]_vars

\* --------------------------------------------- the tokenizer on its own

ParseAlphabet == {"a", " ", "&"}

ParseInputs == UNION {[1..n -> ParseAlphabet] : n \in 0..MaxLen}

InitParse ==
    /\ pc = "parse"
    /\ should_run = 1
    /\ input \in ParseInputs
    /\ history = [i \in 0..(MAX_HISTORY - 1) |-> ptr_garbage]
    /\ history_count = -1
    /\ args = args_uninit
    /\ should_wait = TRUE
    /\ need_fork = TRUE
    /\ procs = [p \in Pids |-> "free"]
    /\ child = 0
    /\ typed = input
    /\ log = <<>>
    /\ printed = <<>>
    /\ executed = FALSE
    /\ child_out = [p \in Pids |-> <<>>]

\* main, line 129: parse_input(input, args, should_wait).
ParseStep ==
    /\ pc = "parse"
    /\ pc' = "parsed"
    /\ args' = parse_input(input, should_wait).args
    /\ should_wait' = parse_input(input, should_wait).shouldWait
    /\ UNCHANGED <<should_run, input, history, history_count, need_fork,
                   procs, child, typed, log, printed, executed, child_out>>

NextParse == ParseStep

SpecParse == InitParse /\ [][NextParse]_vars

\* ------------------------------------------------------------------ claims

HasKind(out, kind) == \E k \in 1..Len(out) : out[k].kind = kind

\* The entries the history built-in listed in the last iteration.
Listing == SelectSeq(printed, LAMBDA o : o.kind = "entry")

Min(a, b) == IF a < b THEN a ELSE b

\* C1: whenever "!!" was submitted with a non-empty history (the store has
\* two entries or more afterwards: the earlier ones and the recalled line),
\* the line it resolved to and echoed is the one appended just before it.
C1_BangBangIsLatest ==
    (typed = s_bangbang /\ pc # "crashed" /\ Len(log) >= 2)
        => (printed # <<>> /\ printed[1] = Echo(log[Len(log) - 1]))

\* C2: an iteration whose recall failed ("!!" on an empty history, or "!n"
\* with no such number) does not call execute.
C2_FailedRecallNoSpawn ==
    (\/ (Len(typed) >= 2 /\ HasKind(printed, "There is no command numbered"))
     \/ (typed = s_bangbang /\ HasKind(printed, "No commands in history!")))
        => ~executed

\* C3: an iteration whose current line, typed or recalled, is "history" does
\* not call execute, whether the history is empty or not.
C3_HistoryNoSpawn ==
    string_compare(input, s_history) => ~executed

\* C4: the append after exactly MAX_HISTORY appends overwrites slot 0 and is
\* entry number 1: the latest index is 0 after it, and a following
\* "!<MAX_HISTORY>" finds no entry.
C4_WrapRestartsAtOne ==
    /\ Len(log) = MAX_HISTORY + 1
         => (history[0] = log[MAX_HISTORY + 1] /\ history_count = 0)
    /\ (typed = s_bang \o Decimal(MAX_HISTORY) /\ Len(log) = MAX_HISTORY + 2)
         => HasKind(printed, "There is no command numbered")

\* The number of lines appended before the last iteration began (a faulting
\* iteration appends nothing).
AppendedBefore == IF pc = "crashed" \/ typed \in {s_empty, s_exit, s_eof}
                  THEN Len(log) ELSE Len(log) - 1

\* C5: with N lines appended, 1 <= N <= MAX_HISTORY, the history built-in
\* lists exactly the min(HISTORY_SHOWN, N) most recently appended lines, most
\* recent first, each with its position in the order of appending.
C5_ListingIsRecent ==
    (HasKind(printed, "Command history:") /\ AppendedBefore \in 1..MAX_HISTORY)
        => /\ pc # "crashed"
           /\ Len(Listing) = Min(HISTORY_SHOWN, AppendedBefore)
           /\ \A k \in 1..Len(Listing) :
                Listing[k] = Entry(AppendedBefore - k + 1, log[AppendedBefore - k + 1])

\* C5's case: a listing cut short by HISTORY_SHOWN, taken from a full array.
C5_Witness ==
    /\ HasKind(printed, "Command history:")
    /\ AppendedBefore = MAX_HISTORY
    /\ Len(Listing) = HISTORY_SHOWN
    /\ HISTORY_SHOWN < MAX_HISTORY
    /\ Listing[1].text # Listing[2].text

\* C6 as stated: "!!" on an empty history leaves the history empty.
C6_EmptyRecallNoMutation ==
    (typed = s_bangbang /\ printed = <<NoCommands>>)
        => (log = <<>> /\ history_count = -1)

\* C6 as amended: "!!" on an empty history reports the empty history, calls
\* no execute, and stores the typed line "!!" as entry number 1 (slot 0, the
\* latest index 0), the other slots untouched.
C6_EmptyRecallIsRecorded ==
    (typed = s_bangbang /\ printed = <<NoCommands>>)
        => /\ ~executed
           /\ log = <<s_bangbang>>
           /\ history_count = 0
           /\ history[0] = s_bangbang
           /\ \A i \in 1..(MAX_HISTORY - 1) : history[i] = ptr_garbage

C6_Witness ==
    typed = s_bangbang /\ printed = <<NoCommands>> /\ pc = "prompt"

\* C7: when "!n" names no history entry, the entry appended in that
\* iteration is the text the user typed.
C7_FailedRecallVerbatim ==
    (Len(typed) >= 2 /\ HasKind(printed, "There is no command numbered")
        /\ pc # "crashed")
        => log[Len(log)] = typed

\* C8: the line "!" alone never resolves to a history entry: it fails with
\* the message for an invalid number, whatever the history holds.
C8_BareBangFails ==
    typed = s_bang
        => (HasKind(printed, "There is no command numbered")
            /\ ~HasKind(printed, "echo"))

\* C9: parse_input clears shouldWait and drops the token "&" exactly when the
\* last token of the line is "&"; on every other line shouldWait stays true
\* and args holds every token.
C9_TrailingAmpOnly ==
    pc = "parsed"
        => LET toks == strtok(input)
           IN  IF toks # <<>> /\ toks[Len(toks)] = s_amp
               THEN should_wait = FALSE /\ args = SubSeq(toks, 1, Len(toks) - 1)
               ELSE should_wait = TRUE /\ args = toks

\* C10: the parent leaves execute's wait loop for the next prompt only in the
\* step in which wait() reaps the very child it forked, which had terminated;
\* any other step leaves it waiting; and once that child has
\* terminated the parent does get back to the prompt.
C10_WaitsForThatChild ==
    /\ [][(pc = "wait" /\ pc' # "wait")
            => (pc' = "prompt" /\ procs[child] = "zombie"
                /\ procs'[child] = "free")]_vars
    /\ ((pc = "wait" /\ procs[child] = "zombie") ~> (pc = "prompt"))

\* C10's case: the parent still waits for child 2, which runs, after wait()
\* has reaped child 1 (slot 1 was taken when child 2 was forked).
C10_Witness ==
    /\ pc = "wait"
    /\ child = 2
    /\ procs[2] \in {"running", "shell"}
    /\ procs[1] = "free"

\* The lines that matter to execute: a foreground command, a background
\* command, lines that fork nothing, and the end of the loop.
ExecLines == {s_empty, s_exit, s_ls, s_ls_bg, s_space, s_history}

NextExec ==
    \/ \E line \in ExecLines : ReadLine(line)
    \/ ReadEOF
    \/ \E p \in Pids : ChildExit(p)
    \/ \E p \in Pids : ChildLoop(p)
    \/ \E p \in Pids : ChildShellExit(p)
    \/ \E q \in Pids : WaitReturn(q)

\* The interpreter on those lines and on the end of standard input, with
\* the parent scheduled once it is in wait(): a terminated child is reaped.
SpecFair == Init /\ [][NextExec]_vars /\ WF_vars(\E q \in Pids : WaitReturn(q))

\* ---------------------------------------- the history through two wraps

\* The lines that matter to the history: a command, the recalls, the listing.
HistLines == {s_ls, s_history, s_bangbang, s_bang \o Decimal(MAX_HISTORY)}

\* The iteration, until the array has wrapped, the counter has been reset
\* and one more line has been recorded.
ReadMore(line) ==
    /\ Len(log) < MAX_HISTORY + 3
    /\ Iteration(line)

NextHist ==
    \/ \E line \in HistLines : ReadMore(line)
    \/ \E p \in Pids : ChildExit(p)
    \/ \E p \in Pids : ChildLoop(p)
    \/ \E p \in Pids : ChildShellExit(p)
    \/ \E q \in Pids : WaitReturn(q)

SpecHist == Init /\ [][NextHist]_vars

\* C11: an iteration that ran a line ending in "&" leaves the parent at the
\* prompt in that very step (or out with "Fork failed!"), never in wait():
\* no child has to terminate first.
C11_BackgroundReturnsAtOnce ==
    string_compare(input, s_ls_bg)
        => /\ executed
           /\ ~should_wait
           /\ \/ pc = "prompt"
              \/ pc = "fatal" /\ HasKind(printed, "Fork failed!")

\* C11's case: back at the prompt right after "ls &", its child running.
C11_Witness ==
    /\ typed = s_ls_bg
    /\ Len(log) = 1
    /\ pc = "prompt"
    /\ procs[1] = "running"

\* C12: no child is ever in main's loop: none displays the prompt.
C12_ChildNeverInLoop ==
    \A p \in Pids :
        procs[p] # "shell" /\ (\A k \in 1..Len(child_out[p]) : child_out[p][k] # "dsh>")

\* A step that takes no line from the user.
InputFreeStep ==
    \/ \E p \in Pids : ChildExit(p)
    \/ \E p \in Pids : ChildLoop(p)
    \/ \E q \in Pids : WaitReturn(q)

\* C13: while the parent waits for a foreground child whose execvp failed,
\* something can still happen without the user typing a line, so that the
\* parent gets to its next prompt.
C13_PromptWithoutInput ==
    (pc = "wait" /\ procs[child] = "shell") => ENABLED InputFreeStep

\* C14: "Fork failed!" ends the interpreter (no prompt, no line after it),
\* and nothing else but "exit" does.
C14_OnlyForkFailureTerminates ==
    /\ HasKind(printed, "Fork failed!") => (pc = "fatal" /\ ~ENABLED Next)
    /\ pc \notin {"prompt", "wait", "exited"}
         => (pc = "fatal" /\ HasKind(printed, "Fork failed!"))

\* C15: once getline has found the end of standard input, the loop has ended
\* as it does on "exit".
C15_EndOfInputExits ==
    typed = s_eof => (should_run = 0 /\ pc = "exited")

\* C16: a successful recall records the line it resolved to, not the recall
\* expression, as the newest entry; and while the array has not wrapped, "!!"
\* resolves to the entry recorded last, a recalled duplicate included.
C16_RecallRecordsResolved ==
    /\ (pc # "crashed" /\ printed # <<>> /\ printed[1].kind = "echo")
         => /\ log[Len(log)] = printed[1].text
            /\ input = printed[1].text
            /\ history[history_count % MAX_HISTORY] = printed[1].text
    /\ (typed = s_bangbang /\ pc # "crashed" /\ Len(log) \in 2..MAX_HISTORY)
         => (printed # <<>> /\ printed[1] = Echo(log[Len(log) - 1]))

\* C16's case: "ls", "!!", "!!" leaves the history [ls, ls, ls].
C16_Witness ==
    /\ typed = s_bangbang
    /\ log = <<s_ls, s_ls, s_ls>>
    /\ printed # <<>> /\ printed[1] = Echo(s_ls)
    /\ history_count = 2

\* The numbering has been reset: more lines were recorded than the counter
\* numbers.
NumberingReset == history_count < MAX_HISTORY /\ Len(log) > history_count + 1

\* C17: once the numbering has been reset, "!n" with n above the latest
\* number fails with the message for n, although slot n-1 holds a line of
\* the cycle before.
C17_StaleNotRecalled ==
    [][(/\ pc = "prompt"
        /\ typed' = s_bang \o Decimal(MAX_HISTORY)
        /\ (log' # log \/ pc' = "crashed")
        /\ NumberingReset
        /\ MAX_HISTORY - 1 > history_count)
           => (/\ printed'[1] = NoNumbered(MAX_HISTORY)
               /\ ~HasKind(printed', "echo")
               /\ pc' # "crashed")]_vars

\* C17's case: "!<MAX_HISTORY>" has failed after the reset while the last
\* slot still holds the line recorded there before the wrap.
C17_Witness ==
    /\ typed = s_bang \o Decimal(MAX_HISTORY)
    /\ Len(log) = MAX_HISTORY + 3
    /\ printed # <<>> /\ printed[1] = NoNumbered(MAX_HISTORY)
    /\ history[MAX_HISTORY - 1] = log[MAX_HISTORY]
    /\ history[MAX_HISTORY - 1] = s_ls

\* C18: a child in which execvp returned has printed
\* "Error executing command!".
C18_ExecFailurePrinted ==
    \A p \in Pids :
        procs[p] = "shell"
            => (child_out[p] # <<>> /\ child_out[p][1] = "Error executing command!")

\* C19: the counter that indexes the history array stays within the array
\* (or at -1, the empty history).
C19_IndexInBounds ==
    history_count \in -1..(MAX_HISTORY - 1)

\* C20: execute is never called with an empty argument vector: argv[0] is a
\* token of the line.
C20_ArgvNotEmpty ==
    executed => (args # <<>> /\ args # args_uninit)

====
